---- MODULE Spec2Model ----
(***************************************************************************)
(* A model of emp/most_wanted_otus.py: the selection of the top n BLAST    *)
(* hits, the pie chart data builder, the construction of the filtering     *)
(* command list, and the report run with its files.                        *)
(*                                                                         *)
(* Numbers: a percent identity is kept in tenths of a percent (5.0 is 50), *)
(* max_nt_similarity in thousandths (0.1 is 100), so that                  *)
(* percent_identity / 100.0 <= max_nt_similarity is tenths <= thousandths. *)
(* A fraction val / total is kept as the pair <<val, total>>.              *)
(***************************************************************************)
EXTENDS Integers, Sequences, FiniteSets, TLC

VARIABLES tn, pie, cm, run

vars == <<tn, pie, cm, run>>

\* ------------------------------------------------------------------ bounds
MaxLines == 3
MaxTopN == 2
MaxGroups == 3
PaletteLen == 3
MaxTables == 2

\* ------------------------------------------------------- Python helpers
Min(a, b) == IF a <= b THEN a ELSE b
Max(a, b) == IF a >= b THEN a ELSE b

\* s[:n] of a Python list: the first n elements, or all but the last -n
\* when n is negative.
PySliceTo(s, n) ==
    IF n >= 0 THEN SubSeq(s, 1, Min(n, Len(s)))
    ELSE SubSeq(s, 1, Max(0, Len(s) + n))

\* ------------------------------------------------- _get_top_n_blast_results
\* A line is the sequence of its tab-separated fields.  Whitespace inside a
\* line is only tabs here, so a field that is "" or " " is whitespace.
IsSpace(f) == f \in {"", " "}

\* line.strip(): leading and trailing whitespace (tabs, hence whitespace-only
\* fields at either end) is removed.
RECURSIVE LStrip(_)
LStrip(l) == IF l # <<>> /\ IsSpace(Head(l)) THEN LStrip(Tail(l)) ELSE l

RECURSIVE RStrip(_)
RStrip(l) ==
    IF l # <<>> /\ IsSpace(l[Len(l)]) THEN RStrip(SubSeq(l, 1, Len(l) - 1))
    ELSE l

Strip(l) == RStrip(LStrip(l))

\* line.startswith('#')
StartsWithHash(l) == l # <<>> /\ Head(l) \in {"# BLASTN 2.2.22", "# Fields:"}

\* float(percent_identity): kind "num" with the value v in tenths of a
\* percent, kind "nan" for the text nan, kind "ValueError" for a text float()
\* cannot parse.
Float(text) ==
    CASE text = "2.0"  -> [kind |-> "num", v |-> 20]
      [] text = "5.0"  -> [kind |-> "num", v |-> 50]
      [] text = "5"    -> [kind |-> "num", v |-> 50]
      [] text = "50.0" -> [kind |-> "num", v |-> 500]
      [] text = "nan"  -> [kind |-> "nan", v |-> 0]
      [] OTHER         -> [kind |-> "ValueError", v |-> 0]

\* (percent_identity / 100.0) <= max_nt_similarity; a comparison with NaN is
\* False.
SimilarEnough(pct, max_nt_similarity) ==
    pct.kind = "num" /\ pct.v <= max_nt_similarity

\* The body of the if at line 245 for a line that is not skipped: the
\* unpacking of line.split('\t')[:3] and float() raise ValueError.
RowError(l) ==
    \/ Len(PySliceTo(l, 3)) # 3
    \/ Float(l[3]).kind = "ValueError"

\* The tuple appended at line 253; a NaN identity never passes the test of
\* line 251, so the third component of an appended tuple is a number.
Hit(l) == <<l[1], l[2], Float(l[3]).v>>

\* Variant: only empty lines are skipped.
SkippedMut(l) == l = <<>>

\* Whether the loop skips the stripped line (line 245).
Skipped(l) == l = <<>> \/ StartsWithHash(l)

\* The test of lines 251-252 on a well-formed row l.
Retained(st, l, max_nt_similarity) ==
    /\ SimilarEnough(Float(l[3]), max_nt_similarity)
    /\ l[1] \notin st.seen_otus

\* Variant: the identifier is never recorded.
SeenAfterMut(st, l, max_nt_similarity) == st.seen_otus

\* seen_otus after a well-formed row l (lines 251-254).
SeenAfter(st, l, max_nt_similarity) ==
    IF Retained(st, l, max_nt_similarity)
    THEN st.seen_otus \cup {l[1]}
    ELSE st.seen_otus

\* One iteration of the loop at lines 242-254 on the loop state
\* [result, seen_otus, error].
ReadLine(st, line, max_nt_similarity) ==
    LET l == Strip(line) IN
    IF st.error # "none" \/ Skipped(l) THEN st
    ELSE IF RowError(l) THEN [st EXCEPT !.error = "ValueError"]
    ELSE [result |-> IF Retained(st, l, max_nt_similarity)
                     THEN Append(st.result, Hit(l)) ELSE st.result,
          seen_otus |-> SeenAfter(st, l, max_nt_similarity),
          error |-> "none"]

RECURSIVE ReadLines(_, _, _)
ReadLines(st, lines, max_nt_similarity) ==
    IF lines = <<>> THEN st
    ELSE ReadLines(ReadLine(st, Head(lines), max_nt_similarity),
                   Tail(lines), max_nt_similarity)

\* Variant: an element is put in front of the elements of equal key.
RECURSIVE InsertByKeyMut(_, _)
InsertByKeyMut(x, s) ==
    IF s = <<>> THEN <<x>>
    ELSE IF x[3] <= Head(s)[3] THEN <<x>> \o s
    ELSE <<Head(s)>> \o InsertByKeyMut(x, Tail(s))

\* sorted(result, key=itemgetter(2)): a stable ascending sort, here by
\* insertion of each element behind the elements whose key is not greater.
RECURSIVE InsertByKey(_, _)
InsertByKey(x, s) ==
    IF s = <<>> THEN <<x>>
    ELSE IF x[3] < Head(s)[3] THEN <<x>> \o s
    ELSE <<Head(s)>> \o InsertByKey(x, Tail(s))

RECURSIVE SortedByKey(_)
SortedByKey(s) ==
    IF s = <<>> THEN <<>>
    ELSE InsertByKey(s[Len(s)], SortedByKey(SubSeq(s, 1, Len(s) - 1)))

\* Variant: one element more is kept.
TopSliceMut(s, top_n) == PySliceTo(s, top_n + 1)

\* The slice of the return statement, line 255.
TopSlice(s, top_n) == PySliceTo(s, top_n)

\* The whole function: [error, result].
GetTopNBlastResults(blast_results_f, top_n, max_nt_similarity) ==
    LET st == ReadLines([result |-> <<>>, seen_otus |-> {}, error |-> "none"],
                        blast_results_f, max_nt_similarity)
    IN IF st.error # "none" THEN [error |-> st.error, result |-> <<>>]
       ELSE [error |-> "none",
             result |-> TopSlice(SortedByKey(st.result), top_n)]

\* The inputs of the model.
InputLines ==
    { <<"">>, <<"# BLASTN 2.2.22">>, <<"# Fields:", "Query id">>,
      <<"OTU1", "gi|1|gb|A1|", "5.0">>,
      <<"OTU1", "gi|2|gb|A2|", "2.0">>,
      <<"OTU1", "gi|3|gb|A3|", "50.0">>,
      <<"OTU2", "gi|4|gb|A4|", "5">>,
      <<"OTU2", "gi|5|gb|A5|", "2.0", "100">>,
      <<"OTU3", "gi|6|gb|A6|", "nan">>,
      <<"OTU1", "gi|1|gb|A1|">>,
      <<"OTU2", "gi|4|gb|A4|", "high">>,
      <<"", "OTU3", "gi|6|gb|A6|", "5.0", " ">> }

RECURSIVE SeqsUpTo(_, _)
SeqsUpTo(S, n) ==
    IF n = 0 THEN {<<>>}
    ELSE LET shorter == SeqsUpTo(S, n - 1)
         IN shorter \cup {Append(s, x) : s \in shorter, x \in S}

\* 0.02 and 0.05.
MaxNtSimilarities == {20, 50}

TnIdle == [phase |-> "idle"]

TnInputs ==
    \E lines \in SeqsUpTo(InputLines, MaxLines), top_n \in 0..MaxTopN,
       sim \in MaxNtSimilarities :
        tn = [phase |-> "called", blast_results_f |-> lines, top_n |-> top_n,
              max_nt_similarity |-> sim, error |-> "none", result |-> <<>>]

TnCall ==
    /\ tn.phase = "called"
    /\ LET r == GetTopNBlastResults(tn.blast_results_f, tn.top_n,
                                    tn.max_nt_similarity)
       IN tn' = [tn EXCEPT !.phase = IF r.error = "none" THEN "returned"
                                     ELSE "raised",
                           !.error = r.error, !.result = r.result]
    /\ UNCHANGED <<pie, cm, run>>

\* ---------------------------------------------------- _format_pie_chart_data
\* Variant: one cycle goes on from call to call.
CycleStartMut(earlier_pos) == earlier_pos

\* A color is its position 0 .. PaletteLen - 1 in data_color_order.
\* The cycle a call draws its colors from (line 362) starts at the first
\* palette entry, wherever the cycle of an earlier call stopped.
CycleStart(earlier_pos) == 0

\* colors.next() for each element of zip(data, labels), line 363: the colors
\* of n elements drawn from a cycle at position pos.
Assigned(pos, n) == [i \in 1..n |-> (pos + i - 1) % PaletteLen]

\* zip(data, labels) with the colors: the tuples (val, label, color).
Zipped(labels, data, pos) ==
    LET n == Min(Len(labels), Len(data))
    IN [i \in 1..n |-> <<data[i], labels[i], Assigned(pos, n)[i]>>]

\* sorted(result, key=itemgetter(0), reverse=True): stable, descending.
RECURSIVE InsertByCount(_, _)
InsertByCount(x, s) ==
    IF s = <<>> THEN <<x>>
    ELSE IF x[1] > Head(s)[1] THEN <<x>> \o s
    ELSE <<Head(s)>> \o InsertByCount(x, Tail(s))

RECURSIVE SortedByCount(_)
SortedByCount(s) ==
    IF s = <<>> THEN <<>>
    ELSE InsertByCount(s[Len(s)], SortedByCount(SubSeq(s, 1, Len(s) - 1)))

RECURSIVE SumCounts(_)
SumCounts(s) == IF s = <<>> THEN 0 ELSE Head(s)[1] + SumCounts(Tail(s))

\* The kept tuples (line 364) and their total (line 365).
Kept(sorted, max_count) == PySliceTo(sorted, max_count)

\* Variant: the total of all the counts.
KeptTotalMut(sorted, max_count) == SumCounts(sorted)

KeptTotal(sorted, max_count) == SumCounts(Kept(sorted, max_count))

\* '%.2f' % (fraction * 100.0): hundredths of a percent, rounded.
Percent2f(val, total) == (2 * val * 10000 + total) \div (2 * total)

\* The whole function.  numpy tells whether the counts are numpy numbers,
\* whose 0 / 0 is nan, or Python numbers, whose 0 / 0 raises.  A fraction is
\* <<val, total>>; nan is <<0, 0>>.
FormatPieChartData(labels, data, max_count, numpy, earlier_pos) ==
    IF Len(labels) # Len(data)
    THEN [error |-> "ValueError", fractions |-> <<>>, legend |-> <<>>,
          colors |-> <<>>, assigned |-> <<>>, cycle_pos |-> earlier_pos]
    ELSE
      LET pos    == CycleStart(earlier_pos)
          zipped == Zipped(labels, data, pos)
          kept   == Kept(SortedByCount(zipped), max_count)
          total  == KeptTotal(SortedByCount(zipped), max_count)
          drawn  == [i \in 1..Len(zipped) |-> zipped[i][3]]
          stop   == (pos + Len(zipped)) % PaletteLen
      IN IF kept # <<>> /\ total = 0 /\ ~numpy
         THEN [error |-> "ZeroDivisionError", fractions |-> <<>>,
               legend |-> <<>>, colors |-> <<>>, assigned |-> drawn,
               cycle_pos |-> stop]
         ELSE [error |-> "none",
               fractions |-> [i \in 1..Len(kept) |-> <<kept[i][1], total>>],
               legend |-> [i \in 1..Len(kept) |->
                   [label |-> kept[i][2],
                    percent |-> IF total = 0 THEN "nan"
                                ELSE ToString(Percent2f(kept[i][1], total))]],
               colors |-> [i \in 1..Len(kept) |-> kept[i][3]],
               assigned |-> drawn, cycle_pos |-> stop]

SampleIds == <<"A", "B", "C", "D", "E">>

Counts == {0, 1, 2}

PieIdle == [phase |-> "idle"]

\* Before a call: what is left of the calls before it, the colors the last
\* of them drew and where its cycle stopped.
PieReady(earlier, earlier_pos, has_earlier) ==
    [phase |-> "ready", has_earlier |-> has_earlier, cycle_pos |-> earlier_pos,
     earlier |-> earlier, labels |-> <<>>, data |-> <<>>, max_count |-> 0,
     numpy |-> FALSE, error |-> "none", fractions |-> <<>>, legend |-> <<>>,
     colors |-> <<>>, assigned |-> <<>>]

PieStart == pie = PieReady(<<>>, 0, FALSE)

\* One call of _format_pie_chart_data.
PieCall ==
    /\ pie.phase = "ready"
    /\ \E n \in 0..MaxGroups, data \in SeqsUpTo(Counts, MaxGroups),
          max_count \in (-1)..MaxGroups, numpy \in BOOLEAN :
          LET labels == SubSeq(SampleIds, 1, n)
              r == FormatPieChartData(labels, data, max_count, numpy,
                                      pie.cycle_pos)
          IN pie' = [pie EXCEPT
                       !.phase = IF r.error = "none" THEN "returned"
                                 ELSE "raised",
                       !.cycle_pos = r.cycle_pos,
                       !.labels = labels, !.data = data,
                       !.max_count = max_count, !.numpy = numpy,
                       !.error = r.error, !.fractions = r.fractions,
                       !.legend = r.legend, !.colors = r.colors,
                       !.assigned = r.assigned]
    /\ UNCHANGED <<tn, cm, run>>

\* The caller goes on to its next call (the loop of line 286 calls the
\* function once for each ranked result).
PieAgain ==
    /\ pie.phase = "returned"
    /\ pie' = PieReady(pie.assigned, pie.cycle_pos, TRUE)
    /\ UNCHANGED <<tn, cm, run>>

\* ------------------------------------------ _get_most_wanted_filtering_commands
\* A file path is [dir, root, ext]: the directory, the file name without its
\* extension, the extension.  A directory is a path whose ext is "".
Path(dir, root, ext) == [dir |-> dir, root |-> root, ext |-> ext]

\* The text of a path.
PathStr(p) ==
    IF p.dir = "" THEN p.root \o p.ext ELSE p.dir \o "/" \o p.root \o p.ext

\* basename(fp) and splitext(basename(fp))[0].
Basename(p) == p.root \o p.ext

\* add_filename_suffix(fp, suffix): the file name of fp, without its
\* directory, with the suffix put before the extension.
AddFilenameSuffix(p, suffix) == Path("", p.root \o suffix, p.ext)

\* join(directory, file name).
Join(dir, file) == Path(dir, file.root, file.ext)

\* An argument of a command: its option, the path it names, and whether the
\* script reads the path ("in"), writes it ("out") or takes a value that is
\* no path ("param").
Arg(flag, role, path) == [flag |-> flag, role |-> role, path |-> path]

Param(flag, text) == Arg(flag, "param", Path("", text, ""))

Command(script, args) == [script |-> script, args |-> args]

\* The four commands of one input table, lines 136-171, and the collapsed
\* table they end with.
NovelOtuTableFp(output_dir, otu_table_fp) ==
    Join(output_dir, AddFilenameSuffix(otu_table_fp, "_novel"))

NovelAbundOtuTableFp(output_dir, novel_otu_table_fp, min_abundance, max_abundance) ==
    Join(output_dir,
         AddFilenameSuffix(novel_otu_table_fp,
             "_min" \o ToString(min_abundance)
                 \o "_max" \o ToString(max_abundance)))

NovelAbundFilteredOtuTableFp(output_dir, novel_abund_otu_table_fp) ==
    Join(output_dir,
         AddFilenameSuffix(novel_abund_otu_table_fp, "_known_samples"))

OtuTableBySampTypeFp(output_dir, novel_abund_filtered_otu_table_fp, mapping_category) ==
    Join(output_dir,
         AddFilenameSuffix(novel_abund_filtered_otu_table_fp,
                           "_" \o mapping_category))

\* Variant: the table before the sample filter.
CollapseInputMut(novel_abund_otu_table_fp, novel_abund_filtered_otu_table_fp) ==
    novel_abund_otu_table_fp

\* The table the collapse command reads, lines 169-170.
CollapseInput(novel_abund_otu_table_fp, novel_abund_filtered_otu_table_fp) ==
    novel_abund_filtered_otu_table_fp

TableCommands(a, otu_table_fp) ==
    LET novel == NovelOtuTableFp(a.output_dir, otu_table_fp)
        abund == NovelAbundOtuTableFp(a.output_dir, novel, a.min_abundance,
                                      a.max_abundance)
        known == NovelAbundFilteredOtuTableFp(a.output_dir, abund)
        by_type == OtuTableBySampTypeFp(a.output_dir, known,
                                        a.mapping_category)
    IN << Command("filter_otus_from_otu_table.py",
              << Arg("-i", "in", otu_table_fp), Arg("-o", "out", novel),
                 Arg("-e", "in", a.gg_fp) >>),
          Command("filter_otus_from_otu_table.py",
              << Arg("-i", "in", novel), Arg("-o", "out", abund),
                 Param("-n", ToString(a.min_abundance)),
                 Param("-x", ToString(a.max_abundance)) >>),
          Command("filter_samples_from_otu_table.py",
              << Arg("-i", "in", abund), Arg("-o", "out", known),
                 Arg("--sample_id_fp", "in", a.mapping_fp) >>),
          Command("summarize_otu_by_cat.py",
              << Arg("-c", "in", CollapseInput(abund, known)),
                 Arg("-o", "out", by_type),
                 Param("-m", a.mapping_category),
                 Arg("-i", "in", a.mapping_fp) >>) >>

\* The merge command, lines 175-180: -i takes the comma-joined list.
MasterOtuTableFp(a) ==
    Join(a.output_dir,
         Path("", "master_otu_table_novel_min" \o ToString(a.min_abundance)
                      \o "_max" \o ToString(a.max_abundance)
                      \o "_" \o a.mapping_category, ".biom"))

MergeCommand(a, otu_tables_to_merge) ==
    Command("merge_otu_tables.py",
        [i \in 1..Len(otu_tables_to_merge) |->
            Arg("-i", "in", otu_tables_to_merge[i])]
        \o << Arg("-o", "out", MasterOtuTableFp(a)) >>)

\* The paths of lines 186-233.
MasterOtuTableMsFp(a, master_otu_table_fp) ==
    Join(a.output_dir,
         AddFilenameSuffix(master_otu_table_fp,
                           "_ms" \o ToString(a.min_categories)))

RepSetCandsFp(a) ==
    Join(a.output_dir, AddFilenameSuffix(a.rep_set_fp, "_candidates"))

UclustOutputDir(a) ==
    Join(a.output_dir,
         Path("", "most_wanted_candidates_" \o Basename(a.gg_fp) \o "_"
                      \o a.max_gg_similarity, ""))

RepSetCandsFailuresFp(a) ==
    Join(a.output_dir, AddFilenameSuffix(RepSetCandsFp(a), "_failures"))

UclustFailuresFp(a) ==
    Join(PathStr(UclustOutputDir(a)),
         Path("", RepSetCandsFp(a).root \o "_failures", ".txt"))

BlastOutputDir(a) == Join(a.output_dir, Path("", "blast_output", ""))

BlastResultsFp(a) ==
    Join(PathStr(BlastOutputDir(a)),
         Path("", RepSetCandsFailuresFp(a).root \o "_blast_out", ".txt"))

\* The five commands of lines 188-229.
TailCommands(a, master_otu_table_fp) ==
    LET ms == MasterOtuTableMsFp(a, master_otu_table_fp)
    IN << Command("filter_otus_from_otu_table.py",
              << Arg("-i", "in", master_otu_table_fp), Arg("-o", "out", ms),
                 Param("-s", ToString(a.min_categories)) >>),
          Command("filter_fasta.py",
              << Arg("-f", "in", a.rep_set_fp),
                 Arg("-o", "out", RepSetCandsFp(a)),
                 Arg("-b", "in", ms) >>),
          Command("parallel_pick_otus_uclust_ref.py",
              << Arg("-i", "in", RepSetCandsFp(a)),
                 Arg("-o", "out", UclustOutputDir(a)),
                 Arg("-r", "in", a.gg_fp),
                 Param("-s", a.max_gg_similarity),
                 Param("-O", ToString(a.jobs_to_start)) >>),
          Command("filter_fasta.py",
              << Arg("-f", "in", RepSetCandsFp(a)),
                 Arg("-s", "in", UclustFailuresFp(a)),
                 Arg("-o", "out", RepSetCandsFailuresFp(a)) >>),
          Command("parallel_blast.py",
              << Arg("-i", "in", RepSetCandsFailuresFp(a)),
                 Arg("-o", "out", BlastOutputDir(a)),
                 Arg("-r", "in", a.nt_fp),
                 Param("-e", a.e_value),
                 Param("-w", ToString(a.word_size)),
                 Param("-O", ToString(a.jobs_to_start)) >>) >>

\* The arguments of the model.  merged_otu_table_fp None is NoPath.
NoPath == Path("", "", "")

OtuTables ==
    { Path("study1", "otu_table", ".biom"), Path("study2", "otus", ".biom"),
      Path("", "table3", ".biom") }

RECURSIVE DistinctSeqsUpTo(_, _)
DistinctSeqsUpTo(S, n) ==
    IF n = 0 THEN {<<>>}
    ELSE LET shorter == DistinctSeqsUpTo(S, n - 1)
         IN shorter \cup
            UNION {{Append(s, x) :
                       x \in {y \in S : \A i \in 1..Len(s) : s[i] # y}} :
                   s \in shorter}

CmArgs(otu_table_fps, merged_otu_table_fp, min_categories, mapping_category) ==
    [output_dir |-> "mw_out", otu_table_fps |-> otu_table_fps,
     rep_set_fp |-> Path("seqs", "rep_set", ".fna"),
     gg_fp |-> Path("gg", "gg_97_otus", ".fasta"),
     nt_fp |-> Path("ncbi", "nt", ".fa"),
     mapping_fp |-> Path("", "map", ".txt"),
     mapping_category |-> mapping_category,
     min_abundance |-> 10, max_abundance |-> 1000,
     min_categories |-> min_categories, max_gg_similarity |-> "0.97",
     e_value |-> "0.001000", word_size |-> 30,
     merged_otu_table_fp |-> merged_otu_table_fp, jobs_to_start |-> 4]

CmIdle == [pc |-> "idle"]

CmInputs ==
    \E otu_table_fps \in DistinctSeqsUpTo(OtuTables, MaxTables),
       merged \in {NoPath, Path("old", "merged", ".biom")},
       min_categories \in {1, 2}, mapping_category \in {"ENV", "BIOME"} :
        cm = [pc |-> "start",
              a |-> CmArgs(otu_table_fps, merged, min_categories,
                           mapping_category),
              commands |-> <<>>, otu_tables_to_merge |-> <<>>,
              master_otu_table_fp |-> NoPath, returned |-> <<>>]

\* if merged_otu_table_fp is None, line 133, and the else of line 182.
CmBranch ==
    /\ cm.pc = "start"
    /\ cm' = IF cm.a.merged_otu_table_fp = NoPath
             THEN [cm EXCEPT !.pc = "tables"]
             ELSE [cm EXCEPT !.pc = "tail",
                             !.master_otu_table_fp = cm.a.merged_otu_table_fp]
    /\ UNCHANGED <<tn, pie, run>>

\* One iteration of the loop of line 134.
CmTable ==
    /\ cm.pc = "tables"
    /\ Len(cm.otu_tables_to_merge) < Len(cm.a.otu_table_fps)
    /\ LET fp == cm.a.otu_table_fps[Len(cm.otu_tables_to_merge) + 1]
           four == TableCommands(cm.a, fp)
       IN cm' = [cm EXCEPT
                   !.commands = @ \o four,
                   !.otu_tables_to_merge =
                       Append(@, four[4].args[2].path)]
    /\ UNCHANGED <<tn, pie, run>>

\* Lines 175-180, after the loop.
CmMerge ==
    /\ cm.pc = "tables"
    /\ Len(cm.otu_tables_to_merge) = Len(cm.a.otu_table_fps)
    /\ cm' = [cm EXCEPT
                !.pc = "tail",
                !.master_otu_table_fp = MasterOtuTableFp(cm.a),
                !.commands =
                    Append(@, MergeCommand(cm.a, cm.otu_tables_to_merge))]
    /\ UNCHANGED <<tn, pie, run>>

\* Lines 186-236.
CmTail ==
    /\ cm.pc = "tail"
    /\ cm' = [cm EXCEPT
                !.pc = "returned",
                !.commands = @ \o TailCommands(cm.a, cm.master_otu_table_fp),
                !.returned =
                    << BlastResultsFp(cm.a), RepSetCandsFailuresFp(cm.a),
                       MasterOtuTableMsFp(cm.a, cm.master_otu_table_fp) >>]
    /\ UNCHANGED <<tn, pie, run>>

CmNext == CmBranch \/ CmTable \/ CmMerge \/ CmTail

\* The whole command list, as the function returns it.
RECURSIVE AllTableCommands(_, _)
AllTableCommands(a, otu_table_fps) ==
    IF otu_table_fps = <<>> THEN <<>>
    ELSE TableCommands(a, Head(otu_table_fps))
             \o AllTableCommands(a, Tail(otu_table_fps))

FilteringCommands(a) ==
    IF a.merged_otu_table_fp = NoPath
    THEN LET per == AllTableCommands(a, a.otu_table_fps)
             to_merge == [t \in 1..Len(a.otu_table_fps) |->
                             per[4 * t].args[2].path]
         IN per \o <<MergeCommand(a, to_merge)>>
                \o TailCommands(a, MasterOtuTableFp(a))
    ELSE TailCommands(a, a.merged_otu_table_fp)

\* ------------------------------------------------- generate_most_wanted_list
\* The files of a run are the texts of their paths.
RunArgs ==
    CmArgs(<<Path("study1", "otu_table", ".biom")>>, NoPath, 1, "ENV")

OutputDir == RunArgs.output_dir

LogFp == OutputDir \o "/log.txt"

OutputImgDir == OutputDir \o "/img"

MwTsvFp == OutputDir \o "/most_wanted_otus.txt"

MwFastaFp == OutputDir \o "/most_wanted_otus.fasta"

MwHtmlFp == OutputDir \o "/most_wanted_otus.html"

\* Lines 321-325 and 330-331.
PieChartAbsFp(otu_id) ==
    OutputImgDir \o "/abundance_by_" \o RunArgs.mapping_category \o "_"
        \o otu_id \o ".png"

PlotDataFp(otu_id) ==
    OutputImgDir \o "/abundance_by_" \o RunArgs.mapping_category \o "_"
        \o otu_id \o ".p"

\* What an earlier run with the same output directory has left.
EarlierRunFiles ==
    {MwTsvFp, MwFastaFp, MwHtmlFp, PieChartAbsFp("OTU7"), PlotDataFp("OTU7")}

\* subject_id.split('|')
SplitPipe(subject_id) ==
    CASE subject_id = "gi|1|gb|A1|" -> <<"gi", "1", "gb", "A1", "">>
      [] subject_id = "gi|5|gb|A5|" -> <<"gi", "5", "gb", "A5", "">>
      [] subject_id = "gi|7"        -> <<"gi", "7">>
      [] OTHER                      -> <<subject_id>>

\* The BLAST output the commands leave, the sequences of the candidates and
\* the counts of the collapsed table.
RunBlastLines ==
    { <<"OTU1", "gi|1|gb|A1|", "5.0">>,
      <<"OTU2", "gi|5|gb|A5|", "2.0", "100">>,
      <<"OTU3", "gi|7", "5.0">> }

RepSetLookups == {{"OTU1", "OTU2", "OTU3"}, {"OTU1", "OTU3"}, {"OTU2"}}

TableObservationIds == {{"OTU1", "OTU2", "OTU3"}, {"OTU1", "OTU3"}}

SeqOf(otu_id) ==
    CASE otu_id = "OTU1" -> "ACGT"
      [] otu_id = "OTU2" -> "GGCC"
      [] OTHER           -> "TTAA"

\* The counts of an OTU in the sample groups; an OTU that the abundance
\* filter of line 150 has kept has a count that is not 0.
ObservationData(otu_id) ==
    CASE otu_id = "OTU1" -> <<2, 1, 0>>
      [] otu_id = "OTU2" -> <<1, 1, 2>>
      [] OTHER           -> <<0, 0, 1>>

NumCategoriesToPlot == 2

RunIdle == [pc |-> "idle"]

RunInit ==
    \E force \in BOOLEAN, suppress \in BOOLEAN,
       fs \in {{}, {OutputDir}, {OutputDir, OutputImgDir} \cup EarlierRunFiles} :
        run = [pc |-> "makedirs", force |-> force,
               suppress_taxonomic_output |-> suppress,
               fs |-> fs, earlier |-> fs, makedirs_failed |-> FALSE,
               written |-> <<>>, logger |-> "none",
               commands |-> <<>>, executed |-> 0,
               top_n_mw |-> <<>>, mw_seqs |-> {},
               table |-> [ids |-> {}, taxonomy |-> FALSE],
               mw_num |-> 0, tsv_lines |-> <<>>, mw_fasta_lines |-> <<>>,
               html_rows |-> 0, plot_fps |-> <<>>, plot_data_fps |-> <<>>,
               error |-> "none", failed_at |-> "none"]

Fail(r, error, at) ==
    [r EXCEPT !.pc = "failed", !.error = error, !.failed_at = at]

\* Variant: force is not consulted.
AfterMakedirsMut(r) ==
    IF OutputDir \in r.fs
    THEN Fail([r EXCEPT !.makedirs_failed = TRUE], "WorkflowError",
              "makedirs")
    ELSE [r EXCEPT !.pc = "logger", !.fs = @ \cup {OutputDir}]

\* Lines 49-55: makedirs raises OSError when the directory exists; the
\* error is raised again as WorkflowError unless force is set.
AfterMakedirs(r) ==
    IF OutputDir \in r.fs
    THEN IF ~r.force
         THEN Fail([r EXCEPT !.makedirs_failed = TRUE], "WorkflowError",
                   "makedirs")
         ELSE [r EXCEPT !.pc = "logger", !.makedirs_failed = TRUE]
    ELSE [r EXCEPT !.pc = "logger", !.fs = @ \cup {OutputDir}]

RunMakedirs ==
    /\ run.pc = "makedirs"
    /\ run' = AfterMakedirs(run)
    /\ UNCHANGED <<tn, pie, cm>>

\* Lines 57-63: the log file is created and the commands are built.
RunLogger ==
    /\ run.pc = "logger"
    /\ run' = [run EXCEPT !.pc = "commands", !.logger = "open",
                          !.fs = @ \cup {LogFp},
                          !.written = Append(@, LogFp),
                          !.commands = FilteringCommands(RunArgs)]
    /\ UNCHANGED <<tn, pie, cm>>

\* Lines 67-68: the command handler runs the commands one after the other;
\* a command that fails ends the run.
RunCommand ==
    /\ run.pc = "commands"
    /\ run.executed < Len(run.commands)
    /\ \E ok \in BOOLEAN :
          LET c == run.commands[run.executed + 1]
              out == PathStr(c.args[CHOOSE k \in 1..Len(c.args) :
                                       c.args[k].role = "out"].path)
          IN run' = IF ok
                    THEN [run EXCEPT !.executed = @ + 1,
                                     !.fs = @ \cup {out},
                                     !.written = Append(@, out)]
                    ELSE Fail([run EXCEPT !.logger = "closed"],
                              "WorkflowError", "commands")
    /\ UNCHANGED <<tn, pie, cm>>

\* Lines 73-76: the BLAST results are read and the top n picked.
RunTopN ==
    /\ run.pc = "commands"
    /\ run.executed = Len(run.commands)
    /\ \E lines \in SeqsUpTo(RunBlastLines, MaxLines) :
          LET r == GetTopNBlastResults(lines, MaxTopN, 50)
          IN run' = IF r.error # "none" THEN Fail(run, r.error, "top_n")
                    ELSE [run EXCEPT !.pc = "load", !.top_n_mw = r.result]
    /\ UNCHANGED <<tn, pie, cm>>

\* Lines 83-95: the candidate sequences and the collapsed table are read
\* and the image directory is made, an OSError of makedirs being ignored;
\* _format_top_n_results_table starts with the header line of the TSV text
\* (lines 274-277).
RunLoad ==
    /\ run.pc = "load"
    /\ \E seqs \in RepSetLookups, ids \in TableObservationIds,
          taxonomy \in BOOLEAN :
          run' = [run EXCEPT !.pc = "format", !.mw_seqs = seqs,
                             !.table = [ids |-> ids, taxonomy |-> taxonomy],
                             !.fs = @ \cup {OutputImgDir},
                             !.tsv_lines = <<[num |-> "#", otu_id |-> "OTU ID"]>>]
    /\ UNCHANGED <<tn, pie, cm>>

\* The error one iteration of the loop of line 286 raises, "none" if it
\* raises none: the sequence lookup of line 288, the taxonomy lookup of
\* lines 298-299, the fourth field of the subject of line 301, the counts of
\* line 307 and the chart data of line 308.  The counts of the table are
\* numpy numbers.
RowErrorOf(r, hit) ==
    IF hit[1] \notin r.mw_seqs THEN "KeyError"
    ELSE IF ~r.suppress_taxonomic_output /\ hit[1] \notin r.table.ids
    THEN "UnknownIdError"
    ELSE IF ~r.suppress_taxonomic_output /\ ~r.table.taxonomy
    THEN "KeyError"
    ELSE IF Len(SplitPipe(hit[2])) < 4 THEN "IndexError"
    ELSE IF hit[1] \notin r.table.ids THEN "UnknownIdError"
    ELSE FormatPieChartData(SubSeq(SampleIds, 1, 3), ObservationData(hit[1]),
                            NumCategoriesToPlot, TRUE, 0).error

\* Variant: rows numbered from 0.
RowNumberMut(mw_num) == ToString(mw_num)

\* The number written in front of the row of the result at index mw_num of
\* enumerate(top_n_mw), line 335.
RowNumber(mw_num) == ToString(mw_num + 1)

\* One iteration of the loop of line 286: the chart and its data are saved
\* and the rows appended.
RunFormatRow ==
    /\ run.pc = "format"
    /\ run.mw_num < Len(run.top_n_mw)
    /\ LET hit == run.top_n_mw[run.mw_num + 1]
           error == RowErrorOf(run, hit)
       IN run' =
           IF error # "none" THEN Fail(run, error, "format")
           ELSE [run EXCEPT
                   !.mw_num = @ + 1,
                   !.mw_fasta_lines =
                       Append(@, [otu_id |-> hit[1], seq |-> SeqOf(hit[1])]),
                   !.fs = @ \cup {PieChartAbsFp(hit[1]), PlotDataFp(hit[1])},
                   !.written = @ \o <<PieChartAbsFp(hit[1]),
                                      PlotDataFp(hit[1])>>,
                   !.plot_fps = Append(@, PieChartAbsFp(hit[1])),
                   !.plot_data_fps = Append(@, PlotDataFp(hit[1])),
                   !.tsv_lines =
                       Append(@, [num |-> RowNumber(run.mw_num),
                                  otu_id |-> hit[1]]),
                   !.html_rows = @ + 1]
    /\ UNCHANGED <<tn, pie, cm>>

\* Variant: the function may return before the loop has ended.
LoopEndedMut(r) == TRUE

\* The loop of line 286 has ended and the function returns, line 356.
LoopEnded(r) == r.mw_num = Len(r.top_n_mw)

RunFormatReturn ==
    /\ run.pc = "format"
    /\ LoopEnded(run)
    /\ run' = [run EXCEPT !.pc = "tsv"]
    /\ UNCHANGED <<tn, pie, cm>>

\* The report files, lines 102-123.
RunWriteTsv ==
    /\ run.pc = "tsv"
    /\ run' = [run EXCEPT !.pc = "fasta", !.fs = @ \cup {MwTsvFp},
                          !.written = Append(@, MwTsvFp)]
    /\ UNCHANGED <<tn, pie, cm>>

RunWriteFasta ==
    /\ run.pc = "fasta"
    /\ run' = [run EXCEPT !.pc = "html", !.fs = @ \cup {MwFastaFp},
                          !.written = Append(@, MwFastaFp)]
    /\ UNCHANGED <<tn, pie, cm>>

RunWriteHtml ==
    /\ run.pc = "html"
    /\ run' = [run EXCEPT !.pc = "done", !.fs = @ \cup {MwHtmlFp},
                          !.written = Append(@, MwHtmlFp),
                          !.logger = "closed"]
    /\ UNCHANGED <<tn, pie, cm>>

RunNext ==
    \/ RunMakedirs \/ RunLogger \/ RunCommand \/ RunTopN \/ RunLoad
    \/ RunFormatRow \/ RunFormatReturn \/ RunWriteTsv \/ RunWriteFasta
    \/ RunWriteHtml

InitRun == tn = TnIdle /\ pie = PieIdle /\ cm = CmIdle /\ RunInit

SpecRun == InitRun /\ [][RunNext]_vars

InitCommands == tn = TnIdle /\ pie = PieIdle /\ CmInputs /\ run = RunIdle

SpecCommands == InitCommands /\ [][CmNext]_vars

InitPie == tn = TnIdle /\ PieStart /\ cm = CmIdle /\ run = RunIdle

PieNext == PieCall \/ PieAgain

SpecPie == InitPie /\ [][PieNext]_vars

InitTopN == TnInputs /\ pie = PieIdle /\ cm = CmIdle /\ run = RunIdle

SpecTopN == InitTopN /\ [][TnCall]_vars

\* ---------------------------------------- claims on _get_top_n_blast_results
TnLines == tn.blast_results_f

\* The input lines that are blank or start with '#', and the rows.
BlankOrComment(line) ==
    \/ \A k \in 1..Len(line) : line[k] \in {"", " "}
    \/ \E k \in 1..Len(line) :
          /\ \A j \in 1..(k - 1) : line[j] \in {"", " "}
          /\ line[k] \in {"# BLASTN 2.2.22", "# Fields:"}

\* The fields of row i without the surrounding whitespace.
RowFields(i) == Strip(TnLines[i])

IsNumberText(text) == text \in {"2.0", "5.0", "5", "50.0", "nan"}

Malformed(line) ==
    /\ ~BlankOrComment(line)
    /\ \/ Len(Strip(line)) < 3
       \/ ~IsNumberText(Strip(line)[3])

RowIndices == {i \in 1..Len(TnLines) : ~BlankOrComment(TnLines[i])}

\* Row i is a hit at or below the similarity threshold.
Qualifies(i) ==
    /\ i \in RowIndices
    /\ ~Malformed(TnLines[i])
    /\ RowFields(i)[3] # "nan"
    /\ Float(RowFields(i)[3]).v <= tn.max_nt_similarity

FirstIndex(S) == CHOOSE i \in S : \A j \in S : i <= j

OccurrencesOf(otu_id) == {i \in RowIndices : RowFields(i)[1] = otu_id}

QualifyingOf(otu_id) == {i \in OccurrencesOf(otu_id) : Qualifies(i)}

ReturnedIds == {tn.result[k][1] : k \in 1..Len(tn.result)}

\* C1: the selector returns at most top_n hits, and every returned hit has
\* percent_identity / 100 <= max_nt_similarity.
C1_AtMostTopNBelowThreshold ==
    tn.phase = "returned" =>
        /\ Len(tn.result) <= tn.top_n
        /\ \A k \in 1..Len(tn.result) :
              tn.result[k][3] <= tn.max_nt_similarity

\* A call that truncated and that dropped a hit above the threshold.
C1_Witness ==
    /\ tn.phase = "returned"
    /\ tn.top_n >= 1
    /\ Len(tn.result) = tn.top_n
    /\ Cardinality({o \in {"OTU1", "OTU2", "OTU3"} : QualifyingOf(o) # {}})
          > tn.top_n
    /\ \E i \in RowIndices : ~Malformed(TnLines[i]) /\ ~Qualifies(i)

\* C2: no query identifier appears twice in the returned list; the list is in
\* non-decreasing order of percent identity, hits of equal percent identity
\* in their input order; and the sort precedes the truncation: a qualifying
\* identifier is left out only of a full list, none of whose hits has a
\* greater percent identity than the one left out.
C2_UniqueSortedStable ==
    tn.phase = "returned" =>
        /\ \A a, b \in 1..Len(tn.result) :
              a < b =>
                /\ tn.result[a][1] # tn.result[b][1]
                /\ tn.result[a][3] <= tn.result[b][3]
                /\ tn.result[a][3] = tn.result[b][3] =>
                      FirstIndex(QualifyingOf(tn.result[a][1]))
                        < FirstIndex(QualifyingOf(tn.result[b][1]))
        /\ \A o \in {"OTU1", "OTU2", "OTU3"} :
              (QualifyingOf(o) # {} /\ o \notin ReturnedIds) =>
                /\ Len(tn.result) = tn.top_n
                /\ \A k \in 1..Len(tn.result) :
                      tn.result[k][3]
                        <= Float(RowFields(FirstIndex(QualifyingOf(o)))[3]).v

\* Two hits of equal percent identity returned in their input order, while a
\* third qualifying identifier is cut off by top_n.
C2_Witness ==
    /\ tn.phase = "returned"
    /\ \E a, b \in 1..Len(tn.result) :
          a < b /\ tn.result[a][3] = tn.result[b][3]
    /\ \E o \in {"OTU1", "OTU2", "OTU3"} :
          QualifyingOf(o) # {} /\ o \notin ReturnedIds

\* C3 as stated: a returned hit for an identifier is always the first input
\* line of that identifier.
C3_FirstOccurrenceWins ==
    tn.phase = "returned" =>
        \A k \in 1..Len(tn.result) :
            tn.result[k]
              = Hit(RowFields(FirstIndex(OccurrencesOf(tn.result[k][1]))))

\* C3 amended: a returned hit for an identifier is the first input line of
\* that identifier whose percent identity is at or below the threshold, and
\* no identifier is returned twice.
C3_FirstQualifyingOccurrenceWins ==
    tn.phase = "returned" =>
        /\ \A k \in 1..Len(tn.result) :
              /\ QualifyingOf(tn.result[k][1]) # {}
              /\ tn.result[k]
                   = Hit(RowFields(FirstIndex(QualifyingOf(tn.result[k][1]))))
        /\ \A a, b \in 1..Len(tn.result) :
              a # b => tn.result[a][1] # tn.result[b][1]

\* An identifier with two qualifying lines, the later one lower, is returned
\* with its first line; and an identifier whose first line is above the
\* threshold is returned with a later line.
C3_Witness ==
    /\ tn.phase = "returned"
    /\ \E k \in 1..Len(tn.result) :
          \E i, j \in QualifyingOf(tn.result[k][1]) :
              /\ i < j
              /\ Float(RowFields(j)[3]).v < Float(RowFields(i)[3]).v
              /\ tn.result[k] = Hit(RowFields(i))
    /\ \E k \in 1..Len(tn.result) :
          FirstIndex(OccurrencesOf(tn.result[k][1]))
            < FirstIndex(QualifyingOf(tn.result[k][1]))

WellFormedRow(line) == ~BlankOrComment(line) /\ ~Malformed(line)

NotBlankOrComment(line) == ~BlankOrComment(line)

\* C4 as stated: blank lines, '#' lines and malformed rows raise no error and
\* the result is that of the input without them.
C4_MalformedSkipped ==
    tn.phase # "called" =>
        /\ tn.phase = "returned"
        /\ tn.result
             = GetTopNBlastResults(SelectSeq(TnLines, WellFormedRow), tn.top_n,
                                   tn.max_nt_similarity).result

\* C4 amended: blank lines and '#' lines are skipped, the outcome being that
\* of the input without them; a row with fewer than three fields or with a
\* third field that float() cannot parse raises ValueError.
C4_BlankAndCommentSkipped ==
    tn.phase # "called" =>
        /\ LET r == GetTopNBlastResults(SelectSeq(TnLines, NotBlankOrComment),
                                        tn.top_n, tn.max_nt_similarity)
           IN tn.error = r.error /\ tn.result = r.result
        /\ tn.phase = "raised"
             <=> \E i \in 1..Len(TnLines) : Malformed(TnLines[i])
        /\ tn.phase = "raised" => tn.error = "ValueError"

\* A call that returned hits from an input holding a blank line and a
\* comment line.
C4_Witness ==
    /\ tn.phase = "returned"
    /\ tn.result # <<>>
    /\ \E i, j \in 1..Len(TnLines) :
          /\ TnLines[i] = <<"">>
          /\ TnLines[j] = <<"# BLASTN 2.2.22">>

\* ------------------------------------------ claims on _format_pie_chart_data
PieDone == pie.phase \in {"returned", "raised"}

RECURSIVE SumNumerators(_)
SumNumerators(fr) ==
    IF fr = <<>> THEN 0 ELSE Head(fr)[1] + SumNumerators(Tail(fr))

\* The fractions <<val, total>> share a total that is not 0 and their values
\* add up to it.
SumsToOne(fr) ==
    \E t \in 1..SumNumerators(fr) :
        /\ \A i \in 1..Len(fr) : fr[i][2] = t
        /\ SumNumerators(fr) = t

\* The number of groups line 364 keeps, and whether one of them has a
\* count that is not 0 (the kept groups are the greatest counts).
KeptCount ==
    IF pie.max_count >= 0 THEN Min(pie.max_count, Len(pie.data))
    ELSE Max(0, Len(pie.data) + pie.max_count)

KeptAllZero == \A i \in 1..Len(pie.data) : pie.data[i] = 0

\* C5 as stated, for max_count >= 0: ValueError when labels and counts
\* differ in length; otherwise three sequences of one length <= max_count are
\* returned and the fractions sum to 1.
C5_FractionsAlwaysSumToOne ==
    (PieDone /\ pie.max_count >= 0) =>
        IF Len(pie.labels) # Len(pie.data)
        THEN pie.phase = "raised" /\ pie.error = "ValueError"
        ELSE /\ pie.phase = "returned"
             /\ Len(pie.fractions) = Len(pie.legend)
             /\ Len(pie.fractions) = Len(pie.colors)
             /\ Len(pie.fractions) <= pie.max_count
             /\ SumsToOne(pie.fractions)

\* C5 amended: ValueError when labels and counts differ in length.  For
\* equal lengths and max_count >= 0 a call that returns gives three sequences
\* of the length min(max_count, number of groups); the fractions sum to 1 when
\* a group is kept and the kept counts are not all 0, each fraction being the
\* kept count over the sum of the kept counts; nothing kept gives three empty
\* sequences; kept counts that are all 0 raise ZeroDivisionError (Python
\* numbers) or give nan fractions (numpy numbers).
C5_FractionsSumToOneWhenPositive ==
    PieDone =>
        IF Len(pie.labels) # Len(pie.data)
        THEN pie.phase = "raised" /\ pie.error = "ValueError"
        ELSE /\ pie.phase = "returned" =>
                  /\ Len(pie.fractions) = KeptCount
                  /\ Len(pie.legend) = KeptCount
                  /\ Len(pie.colors) = KeptCount
                  /\ pie.max_count >= 0 => Len(pie.fractions) <= pie.max_count
             /\ (KeptCount > 0 /\ ~KeptAllZero) =>
                  /\ pie.phase = "returned"
                  /\ SumsToOne(pie.fractions)
                  /\ \A i \in 1..Len(pie.fractions) :
                        \A j \in 1..Len(pie.data) :
                            pie.data[j] > pie.fractions[i][1] =>
                                \E k \in 1..Len(pie.fractions) :
                                    pie.fractions[k][1] = pie.data[j]
             /\ KeptCount = 0 =>
                  pie.phase = "returned" /\ pie.fractions = <<>>
             /\ (KeptCount > 0 /\ KeptAllZero) =>
                  IF pie.numpy
                  THEN /\ pie.phase = "returned"
                       /\ \A i \in 1..Len(pie.fractions) :
                             pie.fractions[i] = <<0, 0>>
                  ELSE pie.phase = "raised"
                       /\ pie.error = "ZeroDivisionError"

\* A call that dropped a group with a positive count and returned fractions
\* that sum to 1.
C5_Witness ==
    /\ pie.phase = "returned"
    /\ Len(pie.fractions) >= 2
    /\ Len(pie.fractions) < Len(pie.data)
    /\ \A i \in 1..Len(pie.data) : pie.data[i] > 0
    /\ SumsToOne(pie.fractions)

\* C6 as stated: the first color a call assigns is the palette entry that
\* follows the last color the call before it assigned.
C6_PaletteSharedAcrossCalls ==
    (PieDone /\ pie.has_earlier /\ pie.earlier # <<>> /\ pie.assigned # <<>>)
        => pie.assigned[1]
             = (pie.earlier[Len(pie.earlier)] + 1) % PaletteLen

\* C6 amended: every call draws from a cycle of its own, so the group at
\* input position i is assigned palette entry (i - 1) mod the palette length
\* whatever the calls before it assigned; the first color of every call is
\* the first palette entry.
C6_FreshCyclePerCall ==
    PieDone =>
        /\ \A i \in 1..Len(pie.assigned) :
              pie.assigned[i] = (i - 1) % PaletteLen
        /\ pie.error # "ValueError" =>
              Len(pie.assigned) = Len(pie.data)
        /\ \A k \in 1..Len(pie.colors) :
              \E i \in 1..Len(pie.data) :
                  /\ pie.colors[k] = (i - 1) % PaletteLen
                  /\ pie.fractions[k][1] = pie.data[i]

\* A second call that assigned colors after a call whose cycle had stopped
\* away from the start of the palette.
C6_Witness ==
    /\ pie.phase = "returned"
    /\ pie.has_earlier
    /\ pie.assigned # <<>>
    /\ pie.earlier # <<>>
    /\ Len(pie.earlier) % PaletteLen # 0

\* ------------------------- claims on _get_most_wanted_filtering_commands
\* The path a command declares as its output, and the paths it reads.
OutputOf(c) ==
    c.args[CHOOSE k \in 1..Len(c.args) : c.args[k].role = "out"].path

InputsOf(c) == {c.args[k].path : k \in {j \in 1..Len(c.args) :
                                            c.args[j].role = "in"}}

\* The output of c is an input of d, or the directory holding one.
Feeds(c, d) ==
    \E p \in InputsOf(d) :
        p = OutputOf(c) \/ p.dir = PathStr(OutputOf(c))

CmTables == cm.a.otu_table_fps

\* C8 as stated: for any number of input tables and with or without a merged
\* table, the output path of every command is, or is the directory holding,
\* an input path of the command after it.
C8_EveryOutputFeedsNext ==
    cm.pc = "returned" =>
        \A k \in 1..(Len(cm.commands) - 1) :
            Feeds(cm.commands[k], cm.commands[k + 1])

\* C8 amended: the output of a command feeds the command after it except
\* across the boundary between the four commands of one input table and
\* those of the next, where the collapse command of table t is followed by
\* the first filter of table t + 1, which reads that input table; the merge
\* command reads the collapsed tables of all the input tables, in their
\* order.
C8_OutputFeedsNextWithinGroups ==
    cm.pc = "returned" =>
        /\ \A k \in 1..(Len(cm.commands) - 1) :
              \/ Feeds(cm.commands[k], cm.commands[k + 1])
              \/ /\ cm.a.merged_otu_table_fp = NoPath
                 /\ k % 4 = 0
                 /\ k < 4 * Len(CmTables)
                 /\ cm.commands[k].script = "summarize_otu_by_cat.py"
                 /\ cm.commands[k + 1].args[1]
                      = Arg("-i", "in", CmTables[(k \div 4) + 1])
        /\ cm.a.merged_otu_table_fp = NoPath =>
              /\ Len(cm.commands) = 4 * Len(CmTables) + 6
              /\ LET merge == cm.commands[4 * Len(CmTables) + 1]
                 IN /\ merge.script = "merge_otu_tables.py"
                    /\ \A t \in 1..Len(CmTables) :
                          merge.args[t].path = OutputOf(cm.commands[4 * t])
                    /\ Cardinality(InputsOf(merge)) = Len(CmTables)
        /\ cm.a.merged_otu_table_fp # NoPath =>
              /\ Len(cm.commands) = 5
              /\ cm.a.merged_otu_table_fp \in InputsOf(cm.commands[1])
        /\ Len(CmTables) <= 1 =>
              \A k \in 1..(Len(cm.commands) - 1) :
                  Feeds(cm.commands[k], cm.commands[k + 1])

\* A command list built for two input tables without a merged table.
C8_Witness ==
    /\ cm.pc = "returned"
    /\ cm.a.merged_otu_table_fp = NoPath
    /\ Len(CmTables) >= 2
    /\ Len(cm.commands) >= 14

\* ------------------------------------ claims on generate_most_wanted_list
Ranked == run.top_n_mw

FormatReturned == run.pc \in {"tsv", "fasta", "html", "done"}

FormatEnded ==
    FormatReturned \/ (run.pc = "failed" /\ run.failed_at = "format")

\* The sequence lookup and the taxonomy lookup succeed for every ranked
\* result.
LookupsSucceed ==
    \A k \in 1..Len(Ranked) :
        /\ Ranked[k][1] \in run.mw_seqs
        /\ Ranked[k][1] \in run.table.ids
        /\ run.suppress_taxonomic_output \/ run.table.taxonomy

SubjectsHaveFourFields ==
    \A k \in 1..Len(Ranked) :
        Ranked[k][2] \in {"gi|1|gb|A1|", "gi|5|gb|A5|"}

\* One header line and one row for each ranked result, numbered from 1 in
\* rank order; one FASTA record, one chart path and one chart data path for
\* each ranked result, in rank order.
ReportShape ==
    /\ Len(run.tsv_lines) = Len(Ranked) + 1
    /\ run.tsv_lines[1].num = "#"
    /\ Len(run.mw_fasta_lines) = Len(Ranked)
    /\ Len(run.plot_fps) = Len(Ranked)
    /\ Len(run.plot_data_fps) = Len(Ranked)
    /\ \A k \in 1..Len(Ranked) :
          /\ run.tsv_lines[k + 1] = [num |-> ToString(k),
                                     otu_id |-> Ranked[k][1]]
          /\ run.mw_fasta_lines[k].otu_id = Ranked[k][1]
          /\ run.plot_fps[k] = PieChartAbsFp(Ranked[k][1])
          /\ run.plot_data_fps[k] = PlotDataFp(Ranked[k][1])

\* C7 as stated: for every ranked-result list for which all lookups succeed,
\* _format_top_n_results_table returns the TSV text, the FASTA text and the
\* two path lists with one entry for each ranked result, in rank order.
C7_ReturnsWhenLookupsSucceed ==
    (FormatEnded /\ LookupsSucceed) => (FormatReturned /\ ReportShape)

\* C7 amended: the same for every ranked-result list for which all lookups
\* succeed and every subject identifier has at least four '|'-separated
\* fields; whenever the function returns, its outputs have that shape, and
\* a subject identifier with fewer fields raises IndexError.
C7_ReturnsWhenLookupsAndSubjectsSucceed ==
    /\ (FormatEnded /\ LookupsSucceed /\ SubjectsHaveFourFields)
          => FormatReturned
    /\ FormatReturned => ReportShape
    /\ (FormatEnded /\ ~FormatReturned /\ LookupsSucceed)
          => run.error = "IndexError"

\* A report of two ranked results has been returned.
C7_Witness ==
    /\ FormatReturned
    /\ Len(Ranked) >= 2
    /\ Len(run.tsv_lines) = Len(Ranked) + 1

\* C9: when creating the output directory fails and force is not set, the
\* run stops with WorkflowError before the log file is created, before any
\* command is executed and before any file is written; when force is set
\* the failure is ignored and the run goes on to the logger and the
\* commands.
C9_ExistingDirectoryStopsUnlessForced ==
    /\ (run.pc # "makedirs" /\ OutputDir \in run.earlier)
          => run.makedirs_failed
    /\ (run.makedirs_failed /\ ~run.force) =>
          /\ run.pc = "failed"
          /\ run.error = "WorkflowError"
          /\ run.failed_at = "makedirs"
          /\ run.logger = "none"
          /\ LogFp \notin run.fs \ run.earlier
          /\ run.executed = 0
          /\ run.commands = <<>>
          /\ run.written = <<>>
          /\ run.fs = run.earlier
    /\ (run.makedirs_failed /\ run.force) =>
          /\ run.failed_at # "makedirs"
          /\ run.pc # "logger" => run.logger # "none"
          /\ run.pc = "failed" => run.failed_at \in {"commands", "top_n",
                                                      "format"}
          /\ run.pc \in {"load", "format", "tsv", "fasta", "html", "done"}
                => run.executed = Len(FilteringCommands(RunArgs))

\* A run that was not forced has stopped on the existing directory.
C9_Witness ==
    /\ run.makedirs_failed
    /\ ~run.force
    /\ run.pc = "failed"
    /\ run.earlier # {OutputDir}

\* A forced run in an existing directory has executed its commands and
\* written its report.
C9_ForcedRunCompletes ==
    /\ run.makedirs_failed
    /\ run.force
    /\ run.pc = "done"
    /\ run.executed = Len(run.commands)
    /\ run.executed > 0

\* The files of the image directory.
ImgFiles ==
    {PieChartAbsFp(o) : o \in {"OTU1", "OTU2", "OTU3", "OTU7"}}
        \cup {PlotDataFp(o) : o \in {"OTU1", "OTU2", "OTU3", "OTU7"}}

ReportFiles == {MwTsvFp, MwFastaFp, MwHtmlFp}

WrittenSet == {run.written[k] : k \in 1..Len(run.written)}

\* The chart files of the ranks 1 .. n.
ChartFilesOfRanks(n) ==
    {PieChartAbsFp(Ranked[k][1]) : k \in 1..n}
        \cup {PlotDataFp(Ranked[k][1]) : k \in 1..n}

\* The run has stopped on a lookup miss at the rank mw_num + 1.
LookupMiss ==
    /\ run.pc = "failed"
    /\ run.failed_at = "format"
    /\ LET otu_id == Ranked[run.mw_num + 1][1]
       IN \/ otu_id \notin run.mw_seqs
          \/ ~run.suppress_taxonomic_output /\ otu_id \notin run.table.ids

\* The report files are written in the order TSV, FASTA, HTML, after every
\* command has completed and every ranked result has been formatted.
ReportFilesLast ==
    /\ WrittenSet \cap ReportFiles # {} =>
          /\ run.executed = Len(run.commands)
          /\ run.executed > 0
          /\ run.mw_num = Len(Ranked)
          /\ Len(run.plot_fps) = Len(Ranked)
    /\ MwFastaFp \in WrittenSet => MwTsvFp \in WrittenSet
    /\ MwHtmlFp \in WrittenSet => MwFastaFp \in WrittenSet

\* C10 as stated: after a lookup miss at rank k none of the three report
\* files has been written and the chart files that exist in the image
\* directory are exactly those of the ranks 1 .. k - 1.
C10_OnlyEarlierRanksChartsExist ==
    /\ LookupMiss =>
          /\ WrittenSet \cap ReportFiles = {}
          /\ run.fs \cap ImgFiles = ChartFilesOfRanks(run.mw_num)
    /\ ReportFilesLast

\* C10 amended: after a lookup miss at rank k the run has stopped with that
\* error, it has written none of the three report files, and the chart files
\* it has written are exactly those of the ranks 1 .. k - 1; the image
\* directory holds these and, when the output directory was there before the
\* run (force), the chart files an earlier run left in it.
C10_OnlyEarlierRanksChartsWritten ==
    /\ LookupMiss =>
          /\ run.error \in {"KeyError", "UnknownIdError"}
          /\ WrittenSet \cap ReportFiles = {}
          /\ WrittenSet \cap ImgFiles = ChartFilesOfRanks(run.mw_num)
          /\ run.fs \cap ImgFiles
               = ChartFilesOfRanks(run.mw_num)
                   \cup (run.earlier \cap ImgFiles)
          /\ run.fs \cap ReportFiles = run.earlier \cap ReportFiles
    /\ ReportFilesLast

\* A lookup miss at rank 2, the charts of rank 1 written.
C10_Witness ==
    /\ LookupMiss
    /\ run.mw_num = 1
    /\ PieChartAbsFp(Ranked[1][1]) \in WrittenSet

====
